---- MODULE Spec2Model ----
(***************************************************************************)
(* Model of obsidian-sync-daemon.py: the VaultSync engine that mirrors a   *)
(* vault directory into a CouchDB database.                                *)
(*                                                                         *)
(* Strings are modelled as sequences of tokens (atomic substrings), so     *)
(* that the two string tests of the code, str.endswith('.md') and the      *)
(* substring test '.obsidian' in path, are computed on the text and are    *)
(* different from the component test ".obsidian" in Path.parts.            *)
(* A path is a sequence of components; a component is a token sequence.    *)
(* File contents are byte sequences; read_text decodes them as UTF-8 and   *)
(* reads the line ends \r\n and \r as \n.                                  *)
(***************************************************************************)
EXTENDS Integers, Sequences, FiniteSets, TLC

VARIABLES
    argv,        \* sys.argv[1:]
    phase,       \* "Start" | "Priming" | "Watching" | "Exited" | "Harness"
    exitStatus,  \* process exit status, -1 while running
    exitCause,   \* what ended the process
    pc,          \* per thread: position in the code
    caller,      \* per thread: who invoked _sync_file_to_db
    file_path,   \* per thread: local file_path (absolute path)
    doc_id,      \* per thread: local doc_id
    content,     \* per thread: local content (decoded text)
    doc,         \* per thread: local doc
    syncing,     \* self._syncing
    fs,          \* the vault directory tree: relative path -> entry
    db,          \* self.db: doc id -> document
    queue,       \* inotify events produced and not yet consumed
    visited,     \* during the scan: entries rglob has already yielded
    stable,      \* during the scan: entries in place since startup
    lastLog,     \* the last line written by logger
    result,      \* per thread: outcome of the current/last Upsert
    ops,         \* per thread: reads and store requests made by the current Upsert
    saves,       \* per thread: number of db.save calls of the current Upsert
    scanCalls,   \* during the scan: path -> number of Upserts it invoked
    lastEvent,   \* the notification the watch loop took last
    lastClass,   \* how the watch loop classified it
    consumed,    \* number of notifications taken by the watch loop
    mutated,     \* doc ids for which db.save or db.delete was issued
    envOps,      \* number of steps taken by the engine's environment
    touched,     \* paths for which a write or a removal was notified
    storeErrors  \* number of requests the store has failed

vars == <<argv, phase, exitStatus, exitCause, pc, caller, file_path, doc_id,
          content, doc, syncing, fs, db, queue, visited, stable, lastLog,
          result, ops, saves, scanCalls, lastEvent, lastClass, consumed,
          mutated, envOps, touched, storeErrors>>

-----------------------------------------------------------------------------
(* Bounds of the model *)

MaxEnvOps == 2
MaxStoreErrors == 1
MaxCalls == 3

-----------------------------------------------------------------------------
(* Sequence helpers *)

Last(s) == s[Len(s)]

\* "/".join(parts) as a token sequence
RECURSIVE JoinSlash(_)
JoinSlash(parts) ==
    IF parts = <<>> THEN <<>>
    ELSE IF Len(parts) = 1 THEN Head(parts)
    ELSE Head(parts) \o <<"/">> \o JoinSlash(Tail(parts))

IsPrefix(p, s) == Len(p) <= Len(s) /\ SubSeq(s, 1, Len(p)) = p

-----------------------------------------------------------------------------
(* Configuration *)

NoVault == [db |-> "", path |-> <<>>]

\* every name is taken for a configured vault
VaultNamesAny == {"personal", "greypillar", "bogus"}

VaultNames == {"personal", "greypillar"}

VAULTS(name) ==
    IF name = "personal"
      THEN [db |-> "personal", path |-> << <<"opt">>, <<"vaults">>, <<"personal">> >>]
    ELSE IF name = "greypillar"
      THEN [db |-> "greypillar", path |-> << <<"opt">>, <<"vaults">>, <<"greypillar">> >>]
    ELSE NoVault

\* the command lines the process is started with
ArgvChoices == { <<>>, <<"personal">>, <<"bogus">> }

vault_name == argv[1]

vault_path == VAULTS(vault_name).path

-----------------------------------------------------------------------------
(* The vault's directory tree *)

P_a     == << <<"notes">>, <<"a", ".md">> >>
P_cache == << <<"drafts">>, <<".obsidian">>, <<"cache", ".md">> >>
P_old   == << <<"notes", ".obsidian", "-old">>, <<"a", ".md">> >>
P_txt   == << <<"notes">>, <<"b", ".txt">> >>
P_sub   == << <<"notes">>, <<"sub", ".md">> >>

\* paths of entries that files come and go at
FilePaths == {P_a, P_cache, P_old, P_txt}

\* a directory whose name ends in .md
DirPaths == {P_sub}

Paths == FilePaths \cup DirPaths

NoEntry  == [kind |-> "absent", bytes |-> <<>>]
DirEntry == [kind |-> "dir", bytes |-> <<>>]
FileEntry(bytes) == [kind |-> "file", bytes |-> bytes]

\* file contents, as bytes
Hello  == <<104, 101, 108, 108, 111>>
Accent == <<195, 169>>
Binary == <<255>>

\* an accented letter and a Windows line end
Crlf == <<195, 169, 13, 10>>

FileContents == {Hello, Crlf, Binary}

\* the vault as the engine finds it at startup
VaultLayout(a, cache, old, txt) ==
    [p \in Paths |->
        IF p = P_a THEN a
        ELSE IF p = P_cache THEN cache
        ELSE IF p = P_old THEN old
        ELSE IF p = P_txt THEN txt
        ELSE DirEntry]

\* in the second one notes.obsidian-old/a.md was removed while no daemon ran
InitialVaults ==
    { VaultLayout(FileEntry(Hello), FileEntry(Hello), FileEntry(Accent), FileEntry(Hello)),
      VaultLayout(FileEntry(Binary), NoEntry, NoEntry, NoEntry) }

-----------------------------------------------------------------------------
(* pathlib *)

\* Path.exists()
Exists(tree, rel) == rel \in DOMAIN tree /\ tree[rel].kind # "absent"

\* Path.is_file()
Is_file(tree, rel) == rel \in DOMAIN tree /\ tree[rel].kind = "file"

\* the entry's name: Path.name
Name(path) == Last(path)

\* the containing directory: Path.parent
Parent(path) == SubSeq(path, 1, Len(path) - 1)

\* PurePath.relative_to(other); <<"ValueError">> when other is no prefix
Relative_to(path, other) ==
    IF IsPrefix(other, path) THEN SubSeq(path, Len(other) + 1, Len(path))
    ELSE << <<"ValueError">> >>

\* str(path) of a relative path
Str(path) == JoinSlash(path)

\* str(path) of an absolute path
StrAbs(path) == <<"/">> \o JoinSlash(path)

\* str.replace("\\", "/")
Replace(text) == [i \in 1..Len(text) |-> IF text[i] = "\\" THEN "/" ELSE text[i]]

\* str.endswith(suffix), for a suffix that is one token
Endswith(text, suffix) == text # <<>> /\ Last(text) = suffix

\* needle in text, for a needle that is one token
Contains(text, needle) == \E i \in 1..Len(text) : text[i] = needle

\* component in Path.parts
InParts(component, path) == \E i \in 1..Len(path) : path[i] = component

\* Path.rglob("*.md") matches an entry by its name
MatchesGlob(path) == Endswith(Name(path), ".md")

-----------------------------------------------------------------------------
(* Text codecs *)

DecodeError == [ok |-> FALSE, text |-> <<>>]

IsCont(bytes, i) == i <= Len(bytes) /\ bytes[i] >= 128 /\ bytes[i] <= 191

\* bytes.decode('utf-8'), as done by Path.read_text(encoding='utf-8')
RECURSIVE Utf8Decode(_)
Utf8Decode(bytes) ==
    IF bytes = <<>> THEN [ok |-> TRUE, text |-> <<>>]
    ELSE
      LET b == bytes[1]
          n == IF b < 128 THEN 1
               ELSE IF b >= 194 /\ b <= 223 THEN 2
               ELSE IF b >= 224 /\ b <= 239 THEN 3
               ELSE IF b >= 240 /\ b <= 244 THEN 4
               ELSE 0
          wellFormed ==
              /\ n > 0
              /\ \A i \in 2..n : IsCont(bytes, i)
              /\ (b = 224 => bytes[2] >= 160)
              /\ (b = 237 => bytes[2] <= 159)
              /\ (b = 240 => bytes[2] >= 144)
              /\ (b = 244 => bytes[2] <= 143)
          cp == IF n = 1 THEN b
                ELSE IF n = 2 THEN (b - 192) * 64 + (bytes[2] - 128)
                ELSE IF n = 3 THEN (b - 224) * 4096 + (bytes[2] - 128) * 64
                                   + (bytes[3] - 128)
                ELSE (b - 240) * 262144 + (bytes[2] - 128) * 4096
                     + (bytes[3] - 128) * 64 + (bytes[4] - 128)
      IN IF ~wellFormed THEN DecodeError
         ELSE LET rest == Utf8Decode(SubSeq(bytes, n + 1, Len(bytes)))
              IN IF rest.ok THEN [ok |-> TRUE, text |-> <<cp>> \o rest.text]
                 ELSE DecodeError

\* text mode with newline=None, as Path.read_text opens the file: the line
\* ends \r\n and \r are read as \n
RECURSIVE Newlines(_)
Newlines(text) ==
    IF text = <<>> THEN <<>>
    ELSE IF text[1] = 13
      THEN <<10>> \o Newlines(IF Len(text) >= 2 /\ text[2] = 10
                                THEN SubSeq(text, 3, Len(text))
                                ELSE Tail(text))
    ELSE <<text[1]>> \o Newlines(Tail(text))

\* str.encode(): UTF-8
RECURSIVE Utf8Encode(_)
Utf8Encode(text) ==
    IF text = <<>> THEN <<>>
    ELSE
      LET cp == text[1]
          enc == IF cp < 128 THEN <<cp>>
                 ELSE IF cp < 2048 THEN <<192 + (cp \div 64), 128 + (cp % 64)>>
                 ELSE IF cp < 65536
                   THEN <<224 + (cp \div 4096), 128 + ((cp \div 64) % 64), 128 + (cp % 64)>>
                 ELSE <<240 + (cp \div 262144), 128 + ((cp \div 4096) % 64),
                        128 + ((cp \div 64) % 64), 128 + (cp % 64)>>
      IN enc \o Utf8Encode(Tail(text))

\* index of "=" in the base64 alphabet extended by the pad character
Pad == 64

\* base64.b64encode(bytes).decode(): the text as indexes into the alphabet
RECURSIVE B64encode(_)
B64encode(bytes) ==
    IF bytes = <<>> THEN <<>>
    ELSE IF Len(bytes) = 1
      THEN <<bytes[1] \div 4, (bytes[1] % 4) * 16, Pad, Pad>>
    ELSE IF Len(bytes) = 2
      THEN <<bytes[1] \div 4, (bytes[1] % 4) * 16 + (bytes[2] \div 16),
             (bytes[2] % 16) * 4, Pad>>
    ELSE <<bytes[1] \div 4, (bytes[1] % 4) * 16 + (bytes[2] \div 16),
           (bytes[2] % 16) * 4 + (bytes[3] \div 64), bytes[3] % 64>>
         \o B64encode(SubSeq(bytes, 4, Len(bytes)))

-----------------------------------------------------------------------------
(* The document store *)

Threads == {"main", "aux"}

\* VaultSync._doc_id_from_path
_doc_id_from_path(path) == Replace(Str(Relative_to(path, vault_path)))

DocIds == {Replace(Str(p)) : p \in Paths}

NoDoc == [exists |-> FALSE, _rev |-> 0, data |-> <<>>, mtime |-> 0, size |-> 0,
          type |-> ""]

StoredDoc(rev, data, mtime, size, type) ==
    [exists |-> TRUE, _rev |-> rev, data |-> data, mtime |-> mtime, size |-> size,
     type |-> type]

\* the local variable doc; _rev = 0 stands for a dict without the key
NoLocalDoc == [_id |-> <<>>, _rev |-> 0, data |-> <<>>, mtime |-> 0, size |-> 0,
               type |-> ""]

\* doc = {"_id": doc_id}
NewDoc(id) == [NoLocalDoc EXCEPT !._id = id]

\* doc = self.db[doc_id], for a document that exists
Fetched(store, id) ==
    [_id |-> id, _rev |-> store[id]._rev, data |-> store[id].data,
     mtime |-> store[id].mtime, size |-> store[id].size, type |-> store[id].type]

\* the store accepts a save or a delete of d: d carries the current revision
RevMatches(store, d) ==
    IF store[d._id].exists THEN d._rev = store[d._id]._rev ELSE d._rev = 0

\* the store after db.save(d) succeeded
Saved(store, d) ==
    [store EXCEPT ![d._id] = StoredDoc(d._rev + 1, d.data, d.mtime, d.size, d.type)]

\* the store after db.delete(d) succeeded
Deleted(store, d) == [store EXCEPT ![d._id] = NoDoc]

EmptyStore == [id \in DocIds |-> NoDoc]

\* the store as an earlier run left it: notes.obsidian-old/a.md has a
\* document, the other files have none yet
PriorStore ==
    [EmptyStore EXCEPT
        ![Replace(Str(P_old))] = StoredDoc(1, B64encode(Accent), 999, 1, "plain")]

InitialStores == {PriorStore}

-----------------------------------------------------------------------------
(* Logging *)

Log(level, msg, id) == [level |-> level, msg |-> msg, id |-> id]

NoLog == Log("", "", <<>>)

-----------------------------------------------------------------------------
(* inotify events: (_, type_names, path, filename) *)

Event(types, path, filename) == [types |-> types, path |-> path, filename |-> filename]

NoEvent == Event({}, <<>>, <<>>)

\* lines 115-116 are missing
FilteredNoReserved(event) ==
    event.filename = <<>> \/ ~Endswith(event.filename, ".md")

\* lines 111-112 and 115-116: the event is skipped
Filtered(event) ==
    \/ event.filename = <<>> \/ ~Endswith(event.filename, ".md")
    \/ Contains(StrAbs(event.path), ".obsidian")

\* line 121
IsWrite(event) == "IN_CLOSE_WRITE" \in event.types \/ "IN_MOVED_TO" \in event.types

\* line 126
IsDelete(event) == "IN_DELETE" \in event.types \/ "IN_MOVED_FROM" \in event.types

\* what the body of the watch loop does with an event
Classify(event) ==
    IF Filtered(event) THEN "filtered"
    ELSE IF IsWrite(event) THEN "upsert"
    ELSE IF IsDelete(event) THEN "delete"
    ELSE "none"

\* the substring test of the watch loop used in the scan
SkippedSubstring(md_file) == Contains(StrAbs(md_file), ".obsidian")

\* line 94: initial_sync skips the entry
Skipped(md_file) == InParts(<<".obsidian">>, md_file)

-----------------------------------------------------------------------------
(* State *)

procVars    == <<argv, phase, exitStatus, exitCause>>
envVars     == <<fs, queue, stable, envOps, touched>>
scanVars    == <<visited, scanCalls>>
watchVars   == <<lastEvent, lastClass, consumed>>
upsertVars  == <<file_path, doc_id, content, doc>>
upsertGhost == <<result, ops, saves>>

Running == -1

\* exit status of an interpreter ended by an uncaught KeyboardInterrupt
SigintStatus == 130

InitCommon ==
    /\ exitStatus = Running
    /\ exitCause = ""
    /\ caller = [t \in Threads |-> ""]
    /\ file_path = [t \in Threads |-> <<>>]
    /\ doc_id = [t \in Threads |-> <<>>]
    /\ content = [t \in Threads |-> <<>>]
    /\ doc = [t \in Threads |-> NoLocalDoc]
    /\ syncing = {}
    /\ fs \in InitialVaults
    /\ db \in InitialStores
    /\ queue = <<>>
    /\ visited = {}
    /\ stable = {p \in Paths : Exists(fs, p)}
    /\ lastLog = NoLog
    /\ result = [t \in Threads |-> ""]
    /\ ops = [t \in Threads |-> {}]
    /\ saves = [t \in Threads |-> 0]
    /\ scanCalls = [p \in Paths |-> 0]
    /\ lastEvent = NoEvent
    /\ lastClass = ""
    /\ consumed = 0
    /\ mutated = {}
    /\ envOps = 0
    /\ touched = {}
    /\ storeErrors = 0

\* the process has been started: python3 obsidian-sync-daemon.py <argv>
Init ==
    /\ argv \in ArgvChoices
    /\ phase = "Start"
    /\ pc = [t \in Threads |-> IF t = "main" THEN "start" ELSE "idle"]
    /\ InitCommon

\* sys.exit(status), or the interpreter ending on an uncaught exception: the
\* process is gone, and with it its frames, the rglob generator and the
\* inotify descriptor with the events not yet read
Exit(status, cause) ==
    /\ phase' = "Exited"
    /\ exitStatus' = status
    /\ exitCause' = cause
    /\ pc' = [pc EXCEPT !["main"] = "exited"]
    /\ caller' = [t \in Threads |-> ""]
    /\ file_path' = [t \in Threads |-> <<>>]
    /\ doc_id' = [t \in Threads |-> <<>>]
    /\ content' = [t \in Threads |-> <<>>]
    /\ doc' = [t \in Threads |-> NoLocalDoc]
    /\ queue' = <<>>
    /\ visited' = {}
    /\ stable' = {}
    /\ scanCalls' = [p \in Paths |-> 0]
    /\ touched' = {}

\* what Exit leaves alone besides the variables of the step that exits
ExitFrame == UNCHANGED <<argv, fs, envOps, watchVars, upsertGhost>>

-----------------------------------------------------------------------------
(* __main__ and VaultSync.__init__ *)

\* lines 151-154
MainUsage ==
    /\ pc["main"] = "start"
    /\ Len(argv) < 1
    /\ lastLog' = Log("STDOUT", "Available vaults", <<>>)
    /\ Exit(1, "usage")
    /\ ExitFrame
    /\ UNCHANGED <<syncing, db, mutated, storeErrors>>

\* lines 156-163 with VaultSync.__init__ (30-44) and the head of run (137)
MainConstruct ==
    /\ pc["main"] = "start"
    /\ Len(argv) >= 1
    /\ \E connected \in BOOLEAN :
         IF vault_name \in VaultNames /\ connected
           THEN /\ phase' = "Priming"
                /\ pc' = [pc EXCEPT !["main"] = "scan"]
                /\ lastLog' = Log("INFO", "Starting initial sync", <<>>)
                /\ UNCHANGED <<exitStatus, exitCause, caller, queue>>
                /\ UNCHANGED <<scanVars, stable, touched, upsertVars>>
           ELSE /\ lastLog' = Log("ERROR", "Fatal error", <<>>)
                /\ Exit(1, IF vault_name \in VaultNames THEN "connect" ELSE "unknown_vault")
    /\ ExitFrame
    /\ UNCHANGED <<syncing, db, mutated, storeErrors>>

-----------------------------------------------------------------------------
(* VaultSync.initial_sync *)

\* the loop is left after any number of entries
ScanExhaustedAtOnce == TRUE

\* rglob has nothing left that it must yield: every matching entry that has
\* been in place since startup was yielded
ScanExhausted == \A p \in stable : MatchesGlob(p) => p \in visited

\* lines 93-97: rglob yields the next entry
ScanNext ==
    /\ pc["main"] = "scan"
    /\ \E p \in Paths :
         /\ p \notin visited
         /\ MatchesGlob(p)
         /\ Exists(fs, p)
         /\ visited' = visited \cup {p}
         /\ IF Skipped(vault_path \o p)
              THEN UNCHANGED <<pc, caller, file_path, scanCalls>>
              ELSE /\ pc' = [pc EXCEPT !["main"] = "upsert_enter"]
                   /\ caller' = [caller EXCEPT !["main"] = "scan"]
                   /\ file_path' = [file_path EXCEPT !["main"] = vault_path \o p]
                   /\ scanCalls' = [scanCalls EXCEPT ![p] = @ + 1]
    /\ UNCHANGED <<procVars, envVars, storeErrors, watchVars, upsertGhost>>
    /\ UNCHANGED <<doc_id, content, doc, syncing, db, lastLog, mutated>>

\* the scan ends by deleting the documents that have no file
ScanDonePruning ==
    /\ pc["main"] = "scan"
    /\ ScanExhausted
    /\ phase' = "Watching"
    /\ pc' = [pc EXCEPT !["main"] = "watch"]
    /\ lastLog' = Log("INFO", "Watching filesystem", <<>>)
    /\ visited' = {}
    /\ stable' = {}
    /\ scanCalls' = [p \in Paths |-> 0]
    /\ db' = [id \in DocIds |->
                IF \E p \in Paths : Replace(Str(p)) = id /\ Is_file(fs, p)
                  THEN db[id] ELSE NoDoc]
    /\ UNCHANGED <<argv, exitStatus, exitCause, caller, syncing, mutated>>
    /\ UNCHANGED <<fs, queue, envOps, touched, storeErrors, watchVars, upsertVars, upsertGhost>>

\* lines 99, 140-144, 103-105: the scan is over, the watch is set up
ScanDone ==
    /\ pc["main"] = "scan"
    /\ ScanExhausted
    /\ phase' = "Watching"
    /\ pc' = [pc EXCEPT !["main"] = "watch"]
    /\ lastLog' = Log("INFO", "Watching filesystem", <<>>)
    /\ visited' = {}
    /\ stable' = {}
    /\ scanCalls' = [p \in Paths |-> 0]
    /\ UNCHANGED <<argv, exitStatus, exitCause, caller, syncing, db, mutated>>
    /\ UNCHANGED <<fs, queue, envOps, touched, storeErrors, watchVars, upsertVars, upsertGhost>>

-----------------------------------------------------------------------------
(* VaultSync._sync_file_to_db, one action per statement that reads or writes
   shared state *)

\* where the caller of _sync_file_to_db goes on
Return(t) ==
    IF caller[t] = "scan" THEN "scan"
    ELSE IF caller[t] = "watch" THEN "watch"
    ELSE "idle"

\* the frame of _sync_file_to_db is left
Returned(t) ==
    /\ pc' = [pc EXCEPT ![t] = Return(t)]
    /\ caller' = [caller EXCEPT ![t] = ""]
    /\ file_path' = [file_path EXCEPT ![t] = <<>>]
    /\ doc_id' = [doc_id EXCEPT ![t] = <<>>]
    /\ content' = [content EXCEPT ![t] = <<>>]
    /\ doc' = [doc EXCEPT ![t] = NoLocalDoc]

\* the test of line 53 is missing
UpsertEnterUnchecked(t) ==
    /\ pc[t] = "upsert_enter"
    /\ ops' = [ops EXCEPT ![t] = {}]
    /\ saves' = [saves EXCEPT ![t] = 0]
    /\ pc' = [pc EXCEPT ![t] = "upsert_guard"]
    /\ result' = [result EXCEPT ![t] = ""]
    /\ doc_id' = [doc_id EXCEPT ![t] = _doc_id_from_path(file_path[t])]
    /\ UNCHANGED <<caller, file_path, content, doc>>
    /\ UNCHANGED <<procVars, envVars, storeErrors, scanVars, watchVars>>
    /\ UNCHANGED <<syncing, db, lastLog, mutated>>

\* lines 53-56
UpsertEnter(t) ==
    /\ pc[t] = "upsert_enter"
    /\ ops' = [ops EXCEPT ![t] = {}]
    /\ saves' = [saves EXCEPT ![t] = 0]
    /\ IF ~Exists(fs, Relative_to(file_path[t], vault_path))
          \/ ~Is_file(fs, Relative_to(file_path[t], vault_path))
         THEN /\ Returned(t)
              /\ result' = [result EXCEPT ![t] = "no_file"]
         ELSE /\ pc' = [pc EXCEPT ![t] = "upsert_guard"]
              /\ result' = [result EXCEPT ![t] = ""]
              /\ doc_id' = [doc_id EXCEPT ![t] = _doc_id_from_path(file_path[t])]
              /\ UNCHANGED <<caller, file_path, content, doc>>
    /\ UNCHANGED <<procVars, envVars, storeErrors, scanVars, watchVars>>
    /\ UNCHANGED <<syncing, db, lastLog, mutated>>

\* the busy check is missing
BusyNever(id, marks) == FALSE

\* line 59: doc_id in self._syncing
Busy(id, marks) == id \in marks

\* the check and the mark are one step: test-and-set under a lock
UpsertGuardAtomic(t) ==
    /\ pc[t] = "upsert_guard"
    /\ IF Busy(doc_id[t], syncing)
         THEN /\ Returned(t)
              /\ result' = [result EXCEPT ![t] = "busy"]
              /\ UNCHANGED syncing
         ELSE /\ pc' = [pc EXCEPT ![t] = "upsert_read"]
              /\ syncing' = syncing \cup {doc_id[t]}
              /\ UNCHANGED <<result, caller, upsertVars>>
    /\ UNCHANGED <<procVars, envVars, storeErrors, scanVars, watchVars>>
    /\ UNCHANGED <<db, lastLog, mutated, ops, saves>>

\* lines 59-60
UpsertGuard(t) ==
    /\ pc[t] = "upsert_guard"
    /\ IF Busy(doc_id[t], syncing)
         THEN /\ Returned(t)
              /\ result' = [result EXCEPT ![t] = "busy"]
         ELSE /\ pc' = [pc EXCEPT ![t] = "upsert_mark"]
              /\ UNCHANGED <<result, caller, upsertVars>>
    /\ UNCHANGED <<procVars, envVars, storeErrors, scanVars, watchVars>>
    /\ UNCHANGED <<syncing, db, lastLog, mutated, ops, saves>>

\* line 63
UpsertMark(t) ==
    /\ pc[t] = "upsert_mark"
    /\ syncing' = syncing \cup {doc_id[t]}
    /\ pc' = [pc EXCEPT ![t] = "upsert_read"]
    /\ UNCHANGED <<procVars, envVars, storeErrors, scanVars, watchVars, upsertVars, upsertGhost>>
    /\ UNCHANGED <<caller, db, lastLog, mutated>>

\* except Exception: pass
FailedSilent(t, how) ==
    /\ result' = [result EXCEPT ![t] = how]
    /\ pc' = [pc EXCEPT ![t] = "upsert_finally"]
    /\ UNCHANGED lastLog

\* a failed save is attempted again
FailedRetry(t, how) ==
    /\ lastLog' = Log("ERROR", "Failed to sync", doc_id[t])
    /\ result' = [result EXCEPT ![t] = how]
    /\ pc' = [pc EXCEPT ![t] = IF how = "save_error" THEN "upsert_save"
                                ELSE "upsert_finally"]

\* the mark is cleared at the end of the try body, not in a finally clause
FailedNoFinally(t, how) ==
    /\ lastLog' = Log("ERROR", "Failed to sync", doc_id[t])
    /\ result' = [result EXCEPT ![t] = how]
    /\ pc' = [pc EXCEPT ![t] = Return(t)]

\* lines 83-84
Failed(t, how) ==
    /\ lastLog' = Log("ERROR", "Failed to sync", doc_id[t])
    /\ result' = [result EXCEPT ![t] = how]
    /\ pc' = [pc EXCEPT ![t] = "upsert_finally"]

\* line 66
UpsertRead(t) ==
    /\ pc[t] = "upsert_read"
    /\ LET rel == Relative_to(file_path[t], vault_path)
           decoded == Utf8Decode(fs[rel].bytes)
       IN IF ~Is_file(fs, rel)
            THEN Failed(t, "read_error") /\ UNCHANGED content
          ELSE IF ~decoded.ok
            THEN Failed(t, "decode_error") /\ UNCHANGED content
          ELSE /\ content' = [content EXCEPT ![t] = Newlines(decoded.text)]
               /\ pc' = [pc EXCEPT ![t] = "upsert_get"]
               /\ UNCHANGED <<lastLog, result>>
    /\ ops' = [ops EXCEPT ![t] = @ \cup {"read"}]
    /\ UNCHANGED <<procVars, envVars, storeErrors, scanVars, watchVars>>
    /\ UNCHANGED <<caller, file_path, doc_id, doc, syncing, db, mutated, saves>>

\* what the store answers to a request
StoreAnswers == IF storeErrors < MaxStoreErrors THEN {"ok", "error"} ELSE {"ok"}

\* the store has failed one more request
Answered(answer) == storeErrors' = IF answer = "ok" THEN storeErrors ELSE storeErrors + 1

\* lines 69-72
UpsertGet(t) ==
    /\ pc[t] = "upsert_get"
    /\ ops' = [ops EXCEPT ![t] = @ \cup {"get"}]
    /\ \E answer \in StoreAnswers :
         /\ Answered(answer)
         /\ IF answer = "ok"
           THEN /\ doc' = [doc EXCEPT ![t] = IF db[doc_id[t]].exists
                                               THEN Fetched(db, doc_id[t])
                                               ELSE NewDoc(doc_id[t])]
                /\ pc' = [pc EXCEPT ![t] = "upsert_save"]
                /\ UNCHANGED <<lastLog, result>>
           ELSE Failed(t, "get_error") /\ UNCHANGED doc
    /\ UNCHANGED <<procVars, envVars, scanVars, watchVars>>
    /\ UNCHANGED <<caller, file_path, doc_id, content, syncing, db, mutated, saves>>

\* int(time.time() * 1000) at two moments a millisecond apart; the wall clock
\* may stand still or step back between two readings
ClockReadings == {1000, 1001}

\* the payload is appended to the one the document holds
UpdatedAppending(d, text, time) ==
    [d EXCEPT !.data = d.data \o B64encode(Utf8Encode(text)),
              !.mtime = time,
              !.size = Len(text),
              !.type = "plain"]

\* lines 75-78
Updated(d, text, time) ==
    [d EXCEPT !.data = B64encode(Utf8Encode(text)),
              !.mtime = time,
              !.size = Len(text),
              !.type = "plain"]

\* lines 75-81
UpsertSave(t) ==
    /\ pc[t] = "upsert_save"
    /\ ops' = [ops EXCEPT ![t] = @ \cup {"save"}]
    /\ saves' = [saves EXCEPT ![t] = @ + 1]
    /\ mutated' = mutated \cup {doc_id[t]}
    /\ \E time \in ClockReadings, answer \in StoreAnswers :
         /\ Answered(answer)
         /\ doc' = [doc EXCEPT ![t] = Updated(doc[t], content[t], time)]
         /\ IF answer = "ok" /\ RevMatches(db, doc[t])
              THEN /\ db' = Saved(db, doc'[t])
                   /\ lastLog' = Log("INFO", "Synced", doc_id[t])
                   /\ result' = [result EXCEPT ![t] = "synced"]
                   /\ pc' = [pc EXCEPT ![t] = "upsert_finally"]
              ELSE Failed(t, "save_error") /\ UNCHANGED db
    /\ UNCHANGED <<procVars, envVars, scanVars, watchVars>>
    /\ UNCHANGED <<caller, file_path, doc_id, content, syncing>>

\* the mark is left behind
DiscardNothing(marks, id) == marks

\* line 86: self._syncing.discard(doc_id)
Discard(marks, id) == marks \ {id}

\* the text read is written back to the file once it is synced
UpsertFinallyWritesBack(t) ==
    /\ pc[t] = "upsert_finally"
    /\ syncing' = Discard(syncing, doc_id[t])
    /\ Returned(t)
    /\ LET rel == Relative_to(file_path[t], vault_path)
       IN /\ fs' = [fs EXCEPT ![rel] = FileEntry(Utf8Encode(content[t]))]
          /\ IF phase = "Watching"
               THEN queue' = Append(queue, Event({"IN_CLOSE_WRITE"},
                                                 Parent(file_path[t]), Name(file_path[t])))
               ELSE UNCHANGED queue
    /\ UNCHANGED <<procVars, stable, envOps, touched, storeErrors, scanVars, watchVars, upsertGhost>>
    /\ UNCHANGED <<db, lastLog, mutated>>

\* lines 85-86
UpsertFinally(t) ==
    /\ pc[t] = "upsert_finally"
    /\ syncing' = Discard(syncing, doc_id[t])
    /\ Returned(t)
    /\ UNCHANGED <<procVars, envVars, storeErrors, scanVars, watchVars, upsertGhost>>
    /\ UNCHANGED <<db, lastLog, mutated>>

-----------------------------------------------------------------------------
(* VaultSync.watch_filesystem *)

\* repeated events are merged: the ones equal to the event taken are dropped
RemainingCoalesced(events) == SelectSeq(Tail(events), LAMBDA e : e # Head(events))

\* line 107: what event_gen still has to yield once it has yielded an event
Remaining(events) == Tail(events)

\* lines 107-126: the loop takes the next event and classifies it
WatchTake ==
    /\ pc["main"] = "watch"
    /\ queue # <<>>
    /\ LET event == Head(queue)
           class == Classify(event)
       IN /\ queue' = Remaining(queue)
          /\ consumed' = consumed + 1
          /\ lastEvent' = event
          /\ lastClass' = class
          /\ IF class = "upsert"
               THEN /\ lastLog' = Log("INFO", "File changed", event.filename)
                    /\ pc' = [pc EXCEPT !["main"] = "upsert_enter"]
                    /\ caller' = [caller EXCEPT !["main"] = "watch"]
                    /\ file_path' = [file_path EXCEPT !["main"] =
                                        Append(event.path, event.filename)]
             ELSE IF class = "delete"
               THEN /\ pc' = [pc EXCEPT !["main"] = "delete_get"]
                    /\ file_path' = [file_path EXCEPT !["main"] =
                                        Append(event.path, event.filename)]
                    /\ UNCHANGED <<lastLog, caller>>
             ELSE UNCHANGED <<pc, caller, file_path, lastLog>>
    /\ UNCHANGED <<procVars, fs, stable, envOps, touched, storeErrors, scanVars, upsertGhost>>
    /\ UNCHANGED <<doc_id, content, doc, syncing, db, mutated>>

\* an exception leaves watch_filesystem: run (143-147) lets it pass, __main__
\* (161-163) logs it and exits
Fatal ==
    /\ lastLog' = Log("ERROR", "Fatal error", <<>>)
    /\ Exit(1, "store_error")

\* the except clause is missing
DeleteNotFoundRaises == Fatal

\* lines 132-133: except couchdb.http.ResourceNotFound: pass
DeleteNotFound ==
    /\ pc' = [pc EXCEPT !["main"] = "watch"]
    /\ file_path' = [file_path EXCEPT !["main"] = <<>>]
    /\ UNCHANGED <<phase, exitStatus, exitCause, lastLog>>
    /\ UNCHANGED <<caller, doc_id, content, doc, queue, scanVars, stable, touched>>

\* lines 128-129
DeleteGet ==
    /\ pc["main"] = "delete_get"
    /\ \E answer \in StoreAnswers :
         /\ Answered(answer)
         /\ LET id == _doc_id_from_path(file_path["main"])
            IN IF answer # "ok" THEN Fatal
               ELSE IF ~db[id].exists THEN DeleteNotFound
               ELSE /\ doc_id' = [doc_id EXCEPT !["main"] = id]
                    /\ doc' = [doc EXCEPT !["main"] = Fetched(db, id)]
                    /\ pc' = [pc EXCEPT !["main"] = "delete_delete"]
                    /\ UNCHANGED <<phase, exitStatus, exitCause, lastLog>>
                    /\ UNCHANGED <<caller, file_path, content, queue, scanVars, stable, touched>>
    /\ ExitFrame
    /\ UNCHANGED <<syncing, db, mutated>>

\* lines 130-131
DeleteDelete ==
    /\ pc["main"] = "delete_delete"
    /\ mutated' = mutated \cup {doc_id["main"]}
    /\ \E answer \in StoreAnswers :
         /\ Answered(answer)
         /\ IF answer = "ok" /\ RevMatches(db, doc["main"])
              THEN /\ db' = Deleted(db, doc["main"])
                   /\ lastLog' = Log("INFO", "Deleted from DB", doc_id["main"])
                   /\ pc' = [pc EXCEPT !["main"] = "watch"]
                   /\ file_path' = [file_path EXCEPT !["main"] = <<>>]
                   /\ doc_id' = [doc_id EXCEPT !["main"] = <<>>]
                   /\ doc' = [doc EXCEPT !["main"] = NoLocalDoc]
                   /\ UNCHANGED <<phase, exitStatus, exitCause>>
                   /\ UNCHANGED <<caller, content, queue, scanVars, stable, touched>>
              ELSE Fatal /\ UNCHANGED db
    /\ ExitFrame
    /\ UNCHANGED syncing

-----------------------------------------------------------------------------
(* KeyboardInterrupt *)

\* positions inside the try statement of _sync_file_to_db (62-86)
InTry(t) ==
    pc[t] \in {"upsert_mark", "upsert_read", "upsert_get", "upsert_save",
               "upsert_finally"}

\* SIGINT arrives: except Exception (83) does not catch it, finally (85-86)
\* runs, run catches it around watch_filesystem only (143-147)
Interrupt ==
    /\ phase \in {"Priming", "Watching"}
    /\ syncing' = IF InTry("main") THEN Discard(syncing, doc_id["main"]) ELSE syncing
    /\ IF phase = "Watching"
         THEN /\ lastLog' = Log("INFO", "Shutting down", <<>>)
              /\ Exit(0, "interrupt")
         ELSE /\ Exit(SigintStatus, "interrupt")
              /\ UNCHANGED lastLog
    /\ ExitFrame
    /\ UNCHANGED <<db, mutated, storeErrors>>

-----------------------------------------------------------------------------
(* Other processes change the vault; inotify reports it once the watch is up *)

\* contents written to a path
ContentsAt(p) == IF p = P_a THEN FileContents ELSE {Hello}

\* event types of a write and of a removal at a path
PutTypes(p) == IF p = P_a THEN {"IN_CLOSE_WRITE", "IN_MOVED_TO"} ELSE {"IN_CLOSE_WRITE"}
RemoveTypes(p) == IF p = P_a THEN {"IN_DELETE", "IN_MOVED_FROM"} ELSE {"IN_DELETE"}

\* the event inotify yields for a change of the entry at relative path p
EventAt(type, p) == Event({type}, vault_path \o Parent(p), Name(p))

\* the event is queued if the watch exists (line 105)
Notify(event) ==
    IF phase = "Watching" THEN queue' = Append(queue, event) ELSE UNCHANGED queue

\* a write or a removal at relative path p is notified if the watch exists
Touch(p) ==
    IF phase = "Watching" THEN touched' = touched \cup {p} ELSE UNCHANGED touched

EnvEnabled ==
    /\ phase \in {"Priming", "Watching"}
    /\ envOps < MaxEnvOps

\* a file is written and closed, or moved into the tree
EnvPut ==
    /\ EnvEnabled
    /\ \E p \in FilePaths : \E bytes \in ContentsAt(p), type \in PutTypes(p) :
         /\ fs' = [fs EXCEPT ![p] = FileEntry(bytes)]
         /\ Notify(EventAt(type, p))
         /\ Touch(p)
    /\ envOps' = envOps + 1
    /\ UNCHANGED <<procVars, stable, scanVars, watchVars, upsertVars, upsertGhost>>
    /\ UNCHANGED <<pc, caller, syncing, db, lastLog, mutated, storeErrors>>

\* a file is deleted, or moved out of the tree
EnvRemove ==
    /\ EnvEnabled
    /\ \E p \in FilePaths : \E type \in RemoveTypes(p) :
         /\ Is_file(fs, p)
         /\ fs' = [fs EXCEPT ![p] = NoEntry]
         /\ stable' = stable \ {p}
         /\ Notify(EventAt(type, p))
         /\ Touch(p)
    /\ envOps' = envOps + 1
    /\ UNCHANGED <<procVars, scanVars, watchVars, upsertVars, upsertGhost>>
    /\ UNCHANGED <<pc, caller, syncing, db, lastLog, mutated, storeErrors>>

\* events that change nothing: a file is opened, a directory is listed
OtherEvents ==
    { EventAt("IN_OPEN", P_a),
      Event({"IN_OPEN", "IN_ISDIR"}, vault_path \o Parent(P_a), <<>>) }

EnvOther ==
    /\ EnvEnabled
    /\ phase = "Watching"
    /\ \E event \in OtherEvents : queue' = Append(queue, event)
    /\ envOps' = envOps + 1
    /\ UNCHANGED <<procVars, fs, stable, touched, scanVars, watchVars, upsertVars, upsertGhost>>
    /\ UNCHANGED <<pc, caller, syncing, db, lastLog, mutated, storeErrors>>

-----------------------------------------------------------------------------
(* The daemon *)

Next ==
    \/ MainUsage
    \/ MainConstruct
    \/ ScanNext
    \/ ScanDone
    \/ UpsertEnter("main")
    \/ UpsertGuard("main")
    \/ UpsertMark("main")
    \/ UpsertRead("main")
    \/ UpsertGet("main")
    \/ UpsertSave("main")
    \/ UpsertFinally("main")
    \/ WatchTake
    \/ DeleteGet
    \/ DeleteDelete
    \/ Interrupt
    \/ EnvPut
    \/ EnvRemove
    \/ EnvOther

Spec == Init /\ [][Next]_vars

-----------------------------------------------------------------------------
(* _sync_file_to_db called from two threads on one VaultSync object, as a test
   or a concurrent caller would *)

CallPaths == {P_a, P_old}

InitConc ==
    /\ argv = <<"personal">>
    /\ phase = "Harness"
    /\ pc = [t \in Threads |-> "idle"]
    /\ InitCommon

\* thread t calls sync._sync_file_to_db(vault_path / p)
Call(t, p) ==
    /\ phase = "Harness"
    /\ pc[t] = "idle"
    /\ envOps < MaxCalls
    /\ envOps' = envOps + 1
    /\ pc' = [pc EXCEPT ![t] = "upsert_enter"]
    /\ caller' = [caller EXCEPT ![t] = "call"]
    /\ file_path' = [file_path EXCEPT ![t] = vault_path \o p]
    /\ UNCHANGED <<procVars, fs, queue, stable, touched, storeErrors, scanVars, watchVars>>
    /\ UNCHANGED <<doc_id, content, doc, syncing, db, lastLog, mutated, upsertGhost>>

NextConc ==
    \/ \E t \in Threads, p \in CallPaths : Call(t, p)
    \/ \E t \in Threads : UpsertEnter(t)
    \/ \E t \in Threads : UpsertGuard(t)
    \/ \E t \in Threads : UpsertMark(t)
    \/ \E t \in Threads : UpsertRead(t)
    \/ \E t \in Threads : UpsertGet(t)
    \/ \E t \in Threads : UpsertSave(t)
    \/ \E t \in Threads : UpsertFinally(t)

SpecConc == InitConc /\ [][NextConc]_vars

-----------------------------------------------------------------------------
(* Properties *)

\* the Upsert of thread t holds its busy mark
InFlight(t) == pc[t] \in {"upsert_read", "upsert_get", "upsert_save", "upsert_finally"}

ErrorLine(id) == Log("ERROR", "Failed to sync", id)

\* the components of an identifier
RECURSIVE Components(_)
Components(id) ==
    IF \A i \in 1..Len(id) : id[i] # "/" THEN <<id>>
    ELSE LET k == CHOOSE i \in 1..Len(id) :
                    id[i] = "/" /\ \A j \in 1..(i - 1) : id[j] # "/"
         IN <<SubSeq(id, 1, k - 1)>> \o Components(SubSeq(id, k + 1, Len(id)))

Reserved == <<".obsidian">>

\* a Tracked File: a regular *.md file not under the reserved subdirectory
TrackedFile(tree, p) ==
    Is_file(tree, p) /\ Endswith(Name(p), ".md") /\ ~InParts(Reserved, Parent(p))

\* C1: outside the span of an Upsert between its mark and its return the
\* marker set is empty: whatever the outcome of an Upsert, its mark is gone
\* when it returns, and the set is empty between two scanned files and
\* between two notifications.
C1_MarkCleared == ~InFlight("main") => syncing = {}

C1_Witness ==
    /\ pc["main"] = "watch"
    /\ result["main"] = "save_error"
    /\ syncing = {}

\* C2: an Upsert that finds its identifier marked busy by another Upsert
\* returns at once: it has read no content and made no store request, and it
\* leaves the marker set, the store and the set of mutated documents as they are.
C2_BusyIsNoOp ==
    [][\A t \in Threads :
         (pc[t] = "upsert_guard" /\ doc_id[t] \in syncing /\ pc'[t] # pc[t])
           => /\ pc'[t] = "idle"
              /\ result'[t] = "busy"
              /\ ops'[t] = {}
              /\ saves'[t] = 0
              /\ syncing' = syncing
              /\ db' = db
              /\ mutated' = mutated]_vars

C2_Witness ==
    \E t \in Threads, u \in Threads :
        /\ t # u
        /\ pc[t] = "idle"
        /\ result[t] = "busy"
        /\ InFlight(u)
        /\ doc_id[u] \in syncing

\* C3: no store error met while propagating a delete ends the process.
C3_DeleteErrorConfined == ~(phase = "Exited" /\ exitCause = "store_error")

\* C4: a decode failure is logged for the file, happens before any store
\* request of that Upsert (no get, no save, store unchanged), and the Upsert
\* returns to the loop that called it.
C4_DecodeFailure ==
    [][/\ (result'["main"] = "decode_error" /\ result["main"] # "decode_error")
            => /\ lastLog' = ErrorLine(doc_id["main"])
               /\ ops'["main"] \cap {"get", "save"} = {}
               /\ db' = db
               /\ mutated' = mutated
               /\ pc'["main"] = "upsert_finally"
       /\ (result["main"] = "decode_error" /\ pc["main"] = "upsert_finally"
             /\ pc'["main"] # "upsert_finally")
            => /\ ops["main"] \cap {"get", "save"} = {}
               /\ db' = db
               /\ (pc'["main"] \in {"scan", "watch"} \/ exitCause' = "interrupt")]_vars

\* the scan met an undecodable file, and the watch loop is handling a later
\* delete notification
C4_Witness ==
    /\ phase = "Watching"
    /\ result["main"] = "decode_error"
    /\ pc["main"] = "delete_get"

\* C5: a store failure in an Upsert (on the fetch or on the save) is logged,
\* leaves the store as it was, is not followed by another save (at most one
\* save per Upsert), and the Upsert returns to the loop that called it.
C5_StoreFailure ==
    [][/\ saves'["main"] <= 1
       /\ (result'["main"] \in {"get_error", "save_error"}
             /\ result["main"] \notin {"get_error", "save_error"})
            => /\ lastLog' = ErrorLine(doc_id["main"])
               /\ db' = db
               /\ pc'["main"] = "upsert_finally"
       /\ (result["main"] \in {"get_error", "save_error"}
             /\ pc["main"] = "upsert_finally" /\ pc'["main"] # "upsert_finally")
            => /\ db' = db
               /\ saves' = saves
               /\ (pc'["main"] \in {"scan", "watch"} \/ exitCause' = "interrupt")]_vars

\* a save failed, the Upsert returned, and a later notification was taken
C5_Witness ==
    /\ phase = "Watching"
    /\ result["main"] = "save_error"
    /\ saves["main"] = 1
    /\ pc["main"] = "watch"
    /\ consumed >= 1

\* C6: when the store answers a delete's fetch with "not found", nothing is
\* logged, no delete is issued, the store is unchanged and the loop is back
\* in Watching; after a delete that succeeded the document does not exist,
\* so the same delete applied again changes nothing.
C6_DeleteMissing ==
    [][/\ (/\ pc["main"] = "delete_get"
           /\ pc'["main"] # "delete_get"
           /\ ~db[_doc_id_from_path(file_path["main"])].exists
           /\ storeErrors' = storeErrors
           /\ exitCause' # "interrupt")
            => /\ pc'["main"] = "watch"
               /\ phase' = "Watching"
               /\ exitStatus' = Running
               /\ lastLog' = lastLog
               /\ db' = db
               /\ mutated' = mutated
       /\ (pc["main"] = "delete_delete" /\ pc'["main"] = "watch")
            => ~db'[doc_id["main"]].exists]_vars

\* a delete notification for a file without a document has been handled
C6_Witness ==
    /\ phase = "Watching"
    /\ pc["main"] = "watch"
    /\ lastClass = "delete"
    /\ lastLog.msg # "Deleted from DB"
    /\ ~db[_doc_id_from_path(Append(lastEvent.path, lastEvent.filename))].exists

\* every matching entry in place since startup has been yielded
AllYielded == \A p \in stable : Endswith(Name(p), ".md") => p \in visited

\* C7: during the scan no path is handed to Upsert twice and no path under
\* the reserved subdirectory is handed to it at all; when the scan ends,
\* every Tracked File in place since startup has been handed to Upsert once,
\* whatever the store holds.
C7_BulkVisitsOnce ==
    [][/\ \A p \in Paths :
            /\ scanCalls'[p] <= 1
            /\ (InParts(Reserved, p) => scanCalls'[p] = 0)
       /\ (phase = "Priming" /\ phase' = "Watching")
            => \A p \in stable : TrackedFile(fs, p) => scanCalls[p] = 1]_vars

\* the scan is complete; notes.obsidian-old/a.md, whose document held the
\* same bytes, was saved again, and the file under .obsidian was yielded and
\* skipped
C7_Witness ==
    /\ phase = "Priming"
    /\ pc["main"] = "scan"
    /\ AllYielded
    /\ scanCalls[P_a] = 1
    /\ fs[P_old] = FileEntry(Accent)
    /\ scanCalls[P_old] = 1
    /\ P_cache \in visited
    /\ scanCalls[P_cache] = 0
    /\ db[Replace(Str(P_old))] = StoredDoc(2, B64encode(Accent), 1000, 1, "plain")

\* the notification is to be ignored: no name, not *.md, or under .obsidian
Ignorable(event) ==
    \/ event.filename = <<>>
    \/ ~Endswith(event.filename, ".md")
    \/ InParts(Reserved, event.path)

\* C8: a notification is skipped by the filter exactly when it has no name,
\* is not *.md or lies under the reserved subdirectory; every other
\* write-class notification goes to Upsert and every other delete-class one to
\* Delete Propagation.
C8_FilterExact ==
    lastEvent # NoEvent =>
        /\ lastClass = "filtered" <=> Ignorable(lastEvent)
        /\ (~Ignorable(lastEvent) /\ IsWrite(lastEvent)) => lastClass = "upsert"
        /\ (~Ignorable(lastEvent) /\ ~IsWrite(lastEvent) /\ IsDelete(lastEvent))
             => lastClass = "delete"

\* C9: no save and no delete is ever issued for an identifier with a
\* component .obsidian, and drafts/.obsidian/cache.md never has a document.
C9_ReservedUntouched ==
    /\ \A id \in mutated : ~InParts(Reserved, Components(id))
    /\ ~db[Replace(Str(P_cache))].exists

\* drafts/.obsidian/cache.md is on disk and a write notification for it was
\* taken, while other documents were written
C9_Witness ==
    /\ phase = "Watching"
    /\ pc["main"] = "watch"
    /\ Is_file(fs, P_cache)
    /\ lastEvent = Event({"IN_CLOSE_WRITE"}, vault_path \o Parent(P_cache), Name(P_cache))
    /\ mutated # {}

\* C10: Watching is entered from Priming only, when the scan has yielded
\* everything; Priming ends in Watching unless the process is interrupted,
\* whatever Upserts failed; Watching is never left for Priming; and before
\* Watching no notification is taken.
C10_PrimingThenWatching ==
    [][/\ (phase' = "Watching" /\ phase # "Watching")
            => (phase = "Priming" /\ pc["main"] = "scan" /\ AllYielded)
       /\ (phase = "Priming" /\ phase' # "Priming")
            => (phase' = "Watching" \/ exitCause' = "interrupt")
       /\ phase = "Watching" => phase' \in {"Watching", "Exited"}
       /\ phase' \in {"Start", "Priming"}
            => (consumed' = 0 /\ queue' = <<>> /\ lastEvent' = NoEvent)]_vars

\* Watching was entered although a store request failed during the scan
C10_Witness ==
    /\ phase = "Watching"
    /\ consumed = 0
    /\ envOps = 0
    /\ storeErrors = 1

\* C11: while Watching, a notification is taken only when the handling of the
\* one before is complete, it is the oldest one delivered and only it leaves
\* the queue; deliveries are appended behind the ones waiting; every
\* write-class notification that passes the filter starts one Upsert of its
\* path and every delete-class one a Delete Propagation, and no Upsert
\* starts while Watching except by taking a notification.
C11_InOrderOneByOne ==
    [][/\ consumed' # consumed
            => /\ pc["main"] = "watch"
               /\ phase = "Watching"
               /\ consumed' = consumed + 1
               /\ queue # <<>>
               /\ lastEvent' = Head(queue)
               /\ queue' = Tail(queue)
               /\ (~Filtered(Head(queue)) /\ IsWrite(Head(queue)))
                    => /\ pc'["main"] = "upsert_enter"
                       /\ caller'["main"] = "watch"
                       /\ file_path'["main"]
                            = Append(Head(queue).path, Head(queue).filename)
               /\ (~Filtered(Head(queue)) /\ ~IsWrite(Head(queue))
                     /\ IsDelete(Head(queue)))
                    => /\ pc'["main"] = "delete_get"
                       /\ file_path'["main"]
                            = Append(Head(queue).path, Head(queue).filename)
       /\ (queue' # queue /\ consumed' = consumed /\ phase' = "Watching")
            => /\ Len(queue') = Len(queue) + 1
               /\ SubSeq(queue', 1, Len(queue)) = queue
       /\ (phase = "Watching" /\ pc'["main"] = "upsert_enter"
             /\ pc["main"] # "upsert_enter")
            => consumed' = consumed + 1]_vars

\* two writes of notes/a.md were notified and each was followed by an Upsert:
\* with the one of the scan the document was saved three times
C11_Witness ==
    /\ phase = "Watching"
    /\ pc["main"] = "watch"
    /\ consumed = 2
    /\ envOps = 2
    /\ lastClass = "upsert"
    /\ db[Replace(Str(P_a))]._rev = 3

\* C12: once Watching, the process ends only by an interrupt, and then with
\* status 0: no failure in handling a file or a notification ends it.
C12_OnlyInterruptEnds ==
    [][(phase = "Watching" /\ phase' # "Watching")
         => (phase' = "Exited" /\ exitCause' = "interrupt" /\ exitStatus' = 0)]_vars

\* the process was started without a vault argument or with a name that the
\* configuration (lines 16-19) does not have
BadArgv == argv = <<>> \/ argv[1] \notin {"personal", "greypillar"}

\* nothing was done yet: no Upsert was entered, no notification taken, no
\* store request made, the store is as it was found
NoWorkDone ==
    /\ phase \in {"Start", "Exited"}
    /\ db \in InitialStores
    /\ mutated = {}
    /\ storeErrors = 0
    /\ consumed = 0
    /\ syncing = {}
    /\ \A t \in Threads : ops[t] = {} /\ result[t] = "" /\ saves[t] = 0

\* C13 as stated: started without a vault argument or with an unknown name,
\* the process does no work and ends with a non-zero status, the recognized
\* vault names printed.
C13_StartupPrintsNames ==
    BadArgv =>
        /\ NoWorkDone
        /\ phase = "Exited"
             => /\ exitStatus # 0
                /\ exitCause \in {"usage", "unknown_vault"}
                /\ lastLog.msg = "Available vaults"

\* C13 amended: started without a vault argument or with an unknown name,
\* the process does no work and ends with status 1; without an argument the
\* usage and the vault names are printed, with an unknown name a fatal error
\* is logged instead.
C13_StartupFailure ==
    BadArgv =>
        /\ NoWorkDone
        /\ phase = "Exited"
             => /\ exitStatus = 1
                /\ exitCause \in {"usage", "unknown_vault"}
                /\ (argv = <<>> => lastLog = Log("STDOUT", "Available vaults", <<>>))
                /\ (argv # <<>> => lastLog = Log("ERROR", "Fatal error", <<>>))

\* the process was started for a vault named bogus and has ended
C13_Witness ==
    /\ argv = <<"bogus">>
    /\ phase = "Exited"
    /\ exitStatus = 1
    /\ lastLog.level = "ERROR"

\* C14: a step of the engine leaves the directory tree as it is and delivers
\* no notification: the tree changes and the queue of notifications grows
\* only in steps of the other processes that write the vault.
C14_TreeOnlyRead ==
    [][envOps' = envOps => (fs' = fs /\ Len(queue') <= Len(queue))]_vars

\* the engine has saved documents and deleted the one of notes/a.md; the
\* tree is as the other processes left it and no notification is waiting
C14_Witness ==
    /\ phase = "Watching"
    /\ pc["main"] = "watch"
    /\ lastLog = Log("INFO", "Deleted from DB", Replace(Str(P_a)))
    /\ Replace(Str(P_old)) \in mutated
    /\ fs[P_a] = NoEntry
    /\ fs[P_old] # NoEntry
    /\ queue = <<>>

\* the document but for its timestamp and its revision
Timeless(d) == [d EXCEPT !.mtime = 0, !._rev = 0]

\* the document id holds was saved by an Upsert since startup
SavedBefore(id) == db[id].exists /\ db[id] # PriorStore[id]

\* C15: with the files unchanged, a successful save of an Upsert that
\* follows an earlier successful Upsert of the same file leaves the document
\* with its identifier, payload, length and type tag; only timestamp and
\* revision may change, no other document changes and the store holds as
\* many documents as before.
C15_UpsertIdempotent ==
    [][\A t \in Threads :
         (pc[t] = "upsert_save" /\ result'[t] = "synced" /\ SavedBefore(doc_id[t]))
           => /\ db'[doc_id[t]].exists
              /\ Timeless(db'[doc_id[t]]) = Timeless(db[doc_id[t]])
              /\ db'[doc_id[t]]._rev = db[doc_id[t]]._rev + 1
              /\ \A id \in DocIds : id # doc_id[t] => db'[id] = db[id]
              /\ Cardinality({id \in DocIds : db'[id].exists})
                   = Cardinality({id \in DocIds : db[id].exists})]_vars

\* notes/a.md, holding "hello", was upserted twice; its document has its
\* second revision and the later timestamp
C15_Witness ==
    /\ \A t \in Threads : pc[t] = "idle"
    /\ envOps = 2
    /\ fs[P_a] = FileEntry(Hello)
    /\ db[Replace(Str(P_a))] = StoredDoc(2, B64encode(Hello), 1001, 5, "plain")

\* C16: in the engine's single thread the marker set holds at most one
\* identifier, the one of the Upsert that is executing past its mark; an
\* Upsert at its busy check finds the set without its identifier, and no
\* Upsert ever returns through the busy short-circuit.
C16_SingleMark ==
    /\ Cardinality(syncing) <= 1
    /\ syncing # {} => (InFlight("main") /\ syncing = {doc_id["main"]})
    /\ pc["main"] = "upsert_guard" => ~Busy(doc_id["main"], syncing)
    /\ result["main"] # "busy"

\* the watch loop's Upsert of notes/a.md holds the mark; the scan upserted
\* the same file before
C16_Witness ==
    /\ phase = "Watching"
    /\ caller["main"] = "watch"
    /\ pc["main"] = "upsert_save"
    /\ syncing = {Replace(Str(P_a))}
    /\ db[Replace(Str(P_a))].exists

\* C17: with two threads the busy check is a step of its own that leaves the
\* marker set as it is, the mark is made in a later step without a second
\* check, and the step that ends an Upsert removes its identifier from the
\* set also while the other thread's Upsert of that identifier is in
\* flight, which is then in flight unmarked.
C17_CheckThenMark ==
    [][\A t \in Threads : \A u \in Threads \ {t} :
         /\ (pc[t] = "upsert_guard" /\ pc'[t] # pc[t]) => syncing' = syncing
         /\ (pc[t] = "upsert_mark" /\ pc'[t] # pc[t])
              => (pc'[t] = "upsert_read" /\ syncing' = syncing \cup {doc_id[t]})
         /\ (pc[t] = "upsert_finally" /\ pc'[t] # pc[t] /\ InFlight(u)
               /\ doc_id[u] = doc_id[t])
              => (InFlight(u)' /\ doc_id'[u] \notin syncing')]_vars

\* both threads passed the busy check for one identifier and both issued
\* their save; one has returned and cleared the mark, the other is still in
\* flight and the marker set no longer has its identifier
C17_Witness ==
    \E t \in Threads, u \in Threads :
        /\ t # u
        /\ pc[t] = "idle"
        /\ result[t] = "synced"
        /\ saves[t] = 1
        /\ pc[u] = "upsert_finally"
        /\ saves[u] = 1
        /\ doc_id[u] \notin syncing

\* C18: a document that exists stops existing only in the delete step of a
\* Delete Propagation, which runs while Watching for a delete-class
\* notification of that document's path; until Watching begins every
\* document stays, also one whose file is not on disk.
C18_DeleteOnlyOnNotification ==
    [][/\ \A id \in DocIds :
            (db[id].exists /\ ~db'[id].exists)
              => /\ phase = "Watching"
                 /\ pc["main"] = "delete_delete"
                 /\ lastClass = "delete"
                 /\ IsDelete(lastEvent)
                 /\ id = _doc_id_from_path(Append(lastEvent.path, lastEvent.filename))
       /\ pc'["main"] \in {"delete_get", "delete_delete"}
            => (phase' = "Watching" /\ lastClass' = "delete")
       /\ (phase = "Priming" /\ phase' = "Watching")
            => \A id \in DocIds : PriorStore[id].exists => db'[id].exists]_vars

\* Watching has begun; notes.obsidian-old/a.md was not on disk at startup and
\* its document is in the store as the earlier run left it
C18_Witness ==
    /\ phase = "Watching"
    /\ envOps = 0
    /\ ~Exists(fs, P_old)
    /\ db[Replace(Str(P_old))] = PriorStore[Replace(Str(P_old))]
    /\ db[Replace(Str(P_old))].exists

\* C19: an Upsert whose path names no regular file when it is entered (the
\* file is gone, or the path is a directory) returns to its caller at once:
\* it reads nothing, makes no store request, logs nothing, and leaves the
\* marker set and every document, the one of its identifier included, as
\* they are.
C19_NoFileNoOp ==
    [][(/\ pc["main"] = "upsert_enter"
        /\ pc'["main"] # "upsert_enter"
        /\ phase' # "Exited"
        /\ fs[Relative_to(file_path["main"], vault_path)].kind # "file")
         => /\ pc'["main"] = Return("main")
            /\ result'["main"] = "no_file"
            /\ ops'["main"] = {}
            /\ saves'["main"] = 0
            /\ db' = db
            /\ mutated' = mutated
            /\ storeErrors' = storeErrors
            /\ syncing' = syncing
            /\ lastLog' = lastLog]_vars

\* notes/a.md was written and removed before its write notification was
\* handled: the Upsert returned, the document saved by the scan is still in
\* the store, and the delete notification is waiting
C19_Witness ==
    /\ phase = "Watching"
    /\ pc["main"] = "watch"
    /\ lastClass = "upsert"
    /\ result["main"] = "no_file"
    /\ ~Exists(fs, P_a)
    /\ db[Replace(Str(P_a))].exists
    /\ queue # <<>>

\* base64 decoding of a payload, the inverse of B64encode
RECURSIVE B64decode(_)
B64decode(data) ==
    IF Len(data) < 4 THEN <<>>
    ELSE LET b1 == data[1] * 4 + (data[2] \div 16)
             b2 == (data[2] % 16) * 16 + (data[3] \div 4)
             b3 == (data[3] % 4) * 64 + data[4]
         IN IF data[3] = Pad THEN <<b1>>
            ELSE IF data[4] = Pad THEN <<b1, b2>>
            ELSE <<b1, b2, b3>> \o B64decode(SubSeq(data, 5, Len(data)))

\* the text a document holds
Payload(d) == Utf8Decode(B64decode(d.data)).text

\* the text of a file, line ends read as \n
TextOf(bytes) == Newlines(Utf8Decode(bytes).text)

\* a path a Tracked File can have
TrackedPath(p) == Endswith(Name(p), ".md") /\ ~InParts(Reserved, Parent(p))

\* every notification delivered has been handled
Quiescent == phase = "Watching" /\ pc["main"] = "watch" /\ queue = <<>>

\* the store agrees with the tree at relative path p
InSync(p) ==
    /\ db[Replace(Str(p))].exists <=> Is_file(fs, p)
    /\ Is_file(fs, p) => Payload(db[Replace(Str(p))]) = TextOf(fs[p].bytes)

\* C20: when no store request has failed, every Tracked File is decodable
\* and every notification delivered while Watching has been handled, then
\* for every tracked path for which a write or a removal was notified the
\* store holds a document exactly if the file exists, and the document's
\* decoded payload is the file's text.
C20_Converges ==
    (/\ Quiescent
     /\ storeErrors = 0
     /\ \A p \in Paths : TrackedFile(fs, p) => Utf8Decode(fs[p].bytes).ok)
      => \A p \in touched : TrackedPath(p) => InSync(p)

====
